---- MODULE Spec2Model ----
(***************************************************************************)
(* A model of src/lisp.py: the tokenizer, the recursive-descent reader,    *)
(* the atom classifier, the global environment, the evaluator with its two *)
(* special forms, and the read-eval-print loop.                            *)
(*                                                                         *)
(* A Python str is a sequence of one-character strings.  Every Python      *)
(* value (tree node or evaluation result) is a record with the same five   *)
(* fields, tagged by t:                                                    *)
(*   "int" n | "float" n/d (reduced, d > 0) | "sym" s | "list" k           *)
(*   "bool" n (0 or 1) | "none" | "prim" s (a function of standard_env)    *)
(***************************************************************************)
EXTENDS Integers, Sequences, FiniteSets, TLC

VARIABLES program, pc, tree, env0, env, out, trace, lastDef

vars == <<program, pc, tree, env0, env, out, trace, lastDef>>

\* ------------------------------------------------------------------ values

IntV(i) == [t |-> "int", n |-> i, d |-> 1, s |-> <<>>, k |-> <<>>]

FloatV(a, b) == [t |-> "float", n |-> a, d |-> b, s |-> <<>>, k |-> <<>>]

Sym(name) == [t |-> "sym", n |-> 0, d |-> 1, s |-> name, k |-> <<>>]

ListV(kids) == [t |-> "list", n |-> 0, d |-> 1, s |-> <<>>, k |-> kids]

BoolV(b) == [t |-> "bool", n |-> IF b THEN 1 ELSE 0, d |-> 1, s |-> <<>>, k |-> <<>>]

NoneV == [t |-> "none", n |-> 0, d |-> 1, s |-> <<>>, k |-> <<>>]

PrimV(name) == [t |-> "prim", n |-> 0, d |-> 1, s |-> name, k |-> <<>>]

\* ------------------------------------------------------------------ text

Digits == <<"0", "1", "2", "3", "4", "5", "6", "7", "8", "9">>

DigitOf == [c \in {Digits[i] : i \in 1..10} |-> (CHOOSE i \in 1..10 : Digits[i] = c) - 1]

IsDigit(c) == c \in DOMAIN DigitOf

DigitVal(c) == DigitOf[c]

IsSpace(c) == c \in {" ", "\t"}

UpperChars == <<"A", "B", "C", "D", "E", "F", "G", "H", "I", "J", "K", "L", "M",
                "N", "O", "P", "Q", "R", "S", "T", "U", "V", "W", "X", "Y", "Z">>

LowerChars == <<"a", "b", "c", "d", "e", "f", "g", "h", "i", "j", "k", "l", "m",
                "n", "o", "p", "q", "r", "s", "t", "u", "v", "w", "x", "y", "z">>

LowerOf ==
    [c \in {UpperChars[j] : j \in 1..26} |-> LowerChars[CHOOSE j \in 1..26 : UpperChars[j] = c]]

\* str.lower(), on the letters A-Z.
lower(chars) ==
    [i \in 1..Len(chars) |-> IF chars[i] \in DOMAIN LowerOf THEN LowerOf[chars[i]] ELSE chars[i]]

RECURSIVE replace(_, _, _)
\* str.replace(old, new) for a one-character old.
replace(chars, old, new) ==
    IF chars = <<>> THEN <<>>
    ELSE (IF Head(chars) = old THEN new ELSE <<Head(chars)>>)
         \o replace(Tail(chars), old, new)

RECURSIVE SplitFrom(_, _, _)
SplitFrom(chars, cur, acc) ==
    IF chars = <<>> THEN (IF cur = <<>> THEN acc ELSE Append(acc, cur))
    ELSE IF IsSpace(Head(chars))
         THEN SplitFrom(Tail(chars), <<>>, IF cur = <<>> THEN acc ELSE Append(acc, cur))
         ELSE SplitFrom(Tail(chars), Append(cur, Head(chars)), acc)

\* str.split(): the maximal runs of non-whitespace, in order.
split(chars) == SplitFrom(chars, <<>>, <<>>)

LP == <<"(">>

RP == <<")">>

tokenize(chars) ==
    split(replace(replace(chars, "(", <<" ", "(", " ">>), ")", <<" ", ")", " ">>))

\* ------------------------------------------------------------------ atom

RECURSIVE DigitsVal(_)
DigitsVal(ds) ==
    IF ds = <<>> THEN 0
    ELSE 10 * DigitsVal(SubSeq(ds, 1, Len(ds) - 1)) + DigitVal(ds[Len(ds)])

RECURSIVE Pow10(_)
Pow10(e) == IF e = 0 THEN 1 ELSE 10 * Pow10(e - 1)

RECURSIVE Gcd(_, _)
Gcd(a, b) == IF b = 0 THEN a ELSE Gcd(b, a % b)

Abs(a) == IF a < 0 THEN -a ELSE a

\* The float whose value is a/b (b > 0), in lowest terms.
Ratio(a, b) == LET g == Gcd(Abs(a), b) IN FloatV(a \div g, b \div g)

HasSign(token) == token # <<>> /\ Head(token) \in {"+", "-"}

Unsigned(token) == IF HasSign(token) THEN Tail(token) ELSE token

SignOf(token) == IF token # <<>> /\ Head(token) = "-" THEN -1 ELSE 1

AllDigits(ds) == \A i \in 1..Len(ds) : IsDigit(ds[i])

\* int(token) succeeds: an optional sign and one or more decimal digits.
\* (Digit groups joined by "_" are accepted by int() too; no modelled input
\* contains that character.)
IsInt(token) == Unsigned(token) # <<>> /\ AllDigits(Unsigned(token))

DotAt(body) == CHOOSE i \in 1..Len(body) : body[i] = "."

\* float(token) succeeds (after int(token) did not): an optional sign, then
\* digits with one decimal point and at least one digit.  (The spellings
\* with an exponent, "inf" and "nan" are floats too; no modelled input is
\* spelled that way.)
IsFloat(token) ==
    LET body == Unsigned(token) IN
    /\ \E i \in 1..Len(body) : body[i] = "."
    /\ LET p == DotAt(body)
           ip == SubSeq(body, 1, p - 1)
           fp == SubSeq(body, p + 1, Len(body))
       IN AllDigits(ip) /\ AllDigits(fp) /\ Len(ip) + Len(fp) > 0

FloatOf(token) ==
    LET body == Unsigned(token)
        p == DotAt(body)
        ip == SubSeq(body, 1, p - 1)
        fp == SubSeq(body, p + 1, Len(body))
    IN Ratio(SignOf(token) * (DigitsVal(ip) * Pow10(Len(fp)) + DigitsVal(fp)),
             Pow10(Len(fp)))

atom(token) ==
    IF IsInt(token) THEN IntV(SignOf(token) * DigitsVal(Unsigned(token)))
    ELSE IF IsFloat(token) THEN FloatOf(token)
    ELSE Sym(token)

\* ------------------------------------------------------------------ reader

EOF == "SyntaxError: Unexpected EOF"

CloseParen == "SyntaxError: Unexpected )"

Read(v, rest) == [ok |-> TRUE, err |-> "", val |-> v, rest |-> rest]

ReadFail(e) == [ok |-> FALSE, err |-> e, val |-> NoneV, rest |-> <<>>]

RECURSIVE read_from_tokens(_), ReadList(_, _)

\* ReadList with L.insert(0, ...) in place of L.append(...).
ReadListPrepend(tokens, L) ==
    IF tokens = <<>> THEN ReadFail("IndexError")
    ELSE IF Head(tokens) = RP THEN Read(ListV(L), Tail(tokens))
    ELSE LET r == read_from_tokens(tokens) IN
         IF r.ok THEN ReadList(r.rest, <<r.val>> \o L) ELSE r

\* The while loop of read_from_tokens, lines 61-64: L holds the children read
\* so far.  tokens[0] on an empty list raises IndexError.
ReadList(tokens, L) ==
    IF tokens = <<>> THEN ReadFail("IndexError")
    ELSE IF Head(tokens) = RP THEN Read(ListV(L), Tail(tokens))
    ELSE LET r == read_from_tokens(tokens) IN
         IF r.ok THEN ReadList(r.rest, Append(L, r.val)) ELSE r

\* read_from_tokens without its elif token == ')' branch.
ReadAnyAtom(tokens) ==
    IF Len(tokens) = 0 THEN ReadFail(EOF)
    ELSE IF Head(tokens) = LP THEN ReadList(Tail(tokens), <<>>)
    ELSE Read(atom(Head(tokens)), Tail(tokens))

read_from_tokens(tokens) ==
    IF Len(tokens) = 0 THEN ReadFail(EOF)
    ELSE IF Head(tokens) = LP THEN ReadList(Tail(tokens), <<>>)
    ELSE IF Head(tokens) = RP THEN ReadFail(CloseParen)
    ELSE Read(atom(Head(tokens)), Tail(tokens))

parse(chars) == read_from_tokens(tokenize(chars))

NoTree == ReadFail("")

\* ------------------------------------------------------------------ environment

IF_ == <<"i", "f">>

DEF_ == <<"d", "e", "f">>

PrimNames == {<<"+">>, <<"-">>, <<"*">>, <<"/">>, <<">">>, <<"<">>,
              <<">", "=">>, <<"<", "=">>, <<"=">>}

standard_env == [key \in {Sym(name) : name \in PrimNames} |-> PrimV(key.s)]

\* Python dict keys compare by ==, so the float 1.0 names the key 1.
DictKey(var) == IF var.t = "float" /\ var.d = 1 THEN IntV(var.n) ELSE var

SetItem(e, key, v) ==
    [q \in DOMAIN e \cup {DictKey(key)} |-> IF q = DictKey(key) THEN v ELSE e[q]]

\* ------------------------------------------------------------------ evaluator

\* One record per evaluate() call, appended when the call returns or raises
\* ("eval"), and one per proc(*args) on line 148 ("call"): path is the position
\* of the evaluated node in the tree of the input line.
Event(kind, path, ok, v) == [kind |-> kind, path |-> path, ok |-> ok, val |-> v]

Return(v, e, tr) == [ok |-> TRUE, err |-> "", val |-> v, env |-> e, trace |-> tr]

Raise(err, e, tr) == [ok |-> FALSE, err |-> err, val |-> NoneV, env |-> e, trace |-> tr]

IsNum(v) == v.t \in {"int", "bool", "float"}

\* Truthy with only the boolean False false.
TruthyOnlyFalse(v) == v # BoolV(FALSE)

\* bool(v): False, None and numeric zero are false, everything else is true.
Truthy(v) ==
    CASE v.t = "none" -> FALSE
      [] IsNum(v) -> v.n # 0
      [] OTHER -> TRUE

Quotient(a, b) ==
    IF a.d * b.n < 0 THEN Ratio(-(a.n * b.d), -(a.d * b.n)) ELSE Ratio(a.n * b.d, a.d * b.n)

Arith(name, a, b) ==
    LET fl == a.t = "float" \/ b.t = "float" IN
    CASE name = <<"+">> ->
            IF fl THEN Ratio(a.n * b.d + b.n * a.d, a.d * b.d) ELSE IntV(a.n + b.n)
      [] name = <<"-">> ->
            IF fl THEN Ratio(a.n * b.d - b.n * a.d, a.d * b.d) ELSE IntV(a.n - b.n)
      [] name = <<"*">> ->
            IF fl THEN Ratio(a.n * b.n, a.d * b.d) ELSE IntV(a.n * b.n)

Compare(name, a, b) ==
    LET l == a.n * b.d
        r == b.n * a.d
    IN CASE name = <<">">> -> l > r
         [] name = <<"<">> -> l < r
         [] name = <<">", "=">> -> l >= r
         [] name = <<"<", "=">> -> l <= r

\* proc(*args): the nine functions of the operator module, each of two
\* arguments.  [ok, err, val].
Apply(proc, args) ==
    IF proc.t # "prim" \/ Len(args) # 2 THEN [ok |-> FALSE, err |-> "TypeError", val |-> NoneV]
    ELSE LET a == args[1]
             b == args[2]
         IN IF proc.s = <<"=">>
            THEN [ok |-> TRUE, err |-> "",
                  val |-> BoolV(IF IsNum(a) /\ IsNum(b) THEN a.n * b.d = b.n * a.d
                                ELSE a = b)]
            ELSE IF ~(IsNum(a) /\ IsNum(b))
            THEN [ok |-> FALSE, err |-> "TypeError", val |-> NoneV]
            ELSE IF proc.s = <<"/">>
            THEN IF b.n = 0 THEN [ok |-> FALSE, err |-> "ZeroDivisionError", val |-> NoneV]
                 ELSE [ok |-> TRUE, err |-> "", val |-> Quotient(a, b)]
            ELSE IF proc.s \in {<<"+">>, <<"-">>, <<"*">>}
            THEN [ok |-> TRUE, err |-> "", val |-> Arith(proc.s, a, b)]
            ELSE [ok |-> TRUE, err |-> "", val |-> BoolV(Compare(proc.s, a, b))]

RECURSIVE evaluate(_, _, _), EvalItems(_, _, _, _, _, _)

\* EvalIf evaluating both branches before it selects one.
EvalIfEager(x, e, p) ==
    IF Len(x.k) # 4 THEN Raise("ValueError", e, <<>>)
    ELSE LET c == evaluate(x.k[2], e, p \o <<2>>) IN
         IF ~c.ok THEN c
         ELSE LET r3 == evaluate(x.k[3], c.env, p \o <<3>>) IN
              IF ~r3.ok THEN [r3 EXCEPT !.trace = c.trace \o r3.trace]
              ELSE LET r4 == evaluate(x.k[4], r3.env, p \o <<4>>) IN
                   IF ~r4.ok THEN [r4 EXCEPT !.trace = c.trace \o r3.trace \o r4.trace]
                   ELSE Return(IF Truthy(c.val) THEN r3.val ELSE r4.val, r4.env,
                               c.trace \o r3.trace \o r4.trace)

\* Lines 135-139: (_, test, conseq, alt) = x, then one of the two branches.
EvalIf(x, e, p) ==
    IF Len(x.k) # 4 THEN Raise("ValueError", e, <<>>)
    ELSE LET c == evaluate(x.k[2], e, p \o <<2>>) IN
         IF ~c.ok THEN c
         ELSE LET b == IF Truthy(c.val) THEN 3 ELSE 4
                  r == evaluate(x.k[b], c.env, p \o <<b>>)
              IN [r EXCEPT !.trace = c.trace \o r.trace]

\* EvalDef that evaluates exp and drops the assignment to env[var].
EvalDefNoBind(x, e, p) ==
    IF Len(x.k) # 3 THEN Raise("ValueError", e, <<>>)
    ELSE LET r == evaluate(x.k[3], e, p \o <<3>>) IN
         IF ~r.ok THEN r
         ELSE IF x.k[2].t = "list" THEN Raise("TypeError", r.env, r.trace)
         ELSE Return(NoneV, r.env, r.trace)

\* EvalDef that binds var to None before it evaluates exp.
EvalDefBindFirst(x, e, p) ==
    IF Len(x.k) # 3 THEN Raise("ValueError", e, <<>>)
    ELSE IF x.k[2].t = "list" THEN Raise("TypeError", e, <<>>)
    ELSE LET r == evaluate(x.k[3], SetItem(e, x.k[2], NoneV), p \o <<3>>) IN
         IF ~r.ok THEN r
         ELSE Return(NoneV, SetItem(r.env, x.k[2], r.val), r.trace)

\* Lines 140-143: (_, var, exp) = x; env[var] = evaluate(exp, env).  A list
\* is unhashable, so it cannot be a key.  The form returns None.
EvalDef(x, e, p) ==
    IF Len(x.k) # 3 THEN Raise("ValueError", e, <<>>)
    ELSE LET r == evaluate(x.k[3], e, p \o <<3>>) IN
         IF ~r.ok THEN r
         ELSE IF x.k[2].t = "list" THEN Raise("TypeError", r.env, r.trace)
         ELSE Return(NoneV, SetItem(r.env, x.k[2], r.val), r.trace)

\* evaluate(x[i]) for i, i+1, ..., left to right, stopping at the first
\* failure: vals holds the values so far.
EvalItems(x, i, e, p, vals, tr) ==
    IF i > Len(x.k) THEN Return(ListV(vals), e, tr)
    ELSE LET r == evaluate(x.k[i], e, p \o <<i>>) IN
         IF ~r.ok THEN [r EXCEPT !.trace = tr \o r.trace]
         ELSE EvalItems(x, i + 1, r.env, p, Append(vals, r.val), tr \o r.trace)

\* EvalCall that evaluates the arguments before the first element.
EvalCallArgsFirst(x, e, p) ==
    LET a == EvalItems(x, 2, e, p, <<>>, <<>>) IN
    IF ~a.ok THEN a
    ELSE LET f == evaluate(x.k[1], a.env, p \o <<1>>) IN
         IF ~f.ok THEN [f EXCEPT !.trace = a.trace \o f.trace]
         ELSE LET c == Apply(f.val, a.val.k)
                  tr == Append(a.trace \o f.trace, Event("call", p, c.ok, c.val))
              IN IF c.ok THEN Return(c.val, f.env, tr) ELSE Raise(c.err, f.env, tr)

\* Lines 144-148: proc, then the arguments, then the call.
EvalCall(x, e, p) ==
    LET r == EvalItems(x, 1, e, p, <<>>, <<>>) IN
    IF ~r.ok THEN r
    ELSE LET c == Apply(Head(r.val.k), Tail(r.val.k))
             tr == Append(r.trace, Event("call", p, c.ok, c.val))
         IN IF c.ok THEN Return(c.val, r.env, tr) ELSE Raise(c.err, r.env, tr)

\* Dispatch that treats a list as a call when its first element is bound.
DispatchLookupFirst(x, e, p) ==
    IF x.t = "sym"
    THEN IF x \in DOMAIN e THEN Return(e[x], e, <<>>) ELSE Raise("KeyError", e, <<>>)
    ELSE IF x.t # "list" THEN Return(x, e, <<>>)
    ELSE IF x.k = <<>> THEN Raise("IndexError", e, <<>>)
    ELSE IF x.k[1] \in DOMAIN e THEN EvalCall(x, e, p)
    ELSE IF x.k[1] = Sym(IF_) THEN EvalIf(x, e, p)
    ELSE IF x.k[1] = Sym(DEF_) THEN EvalDef(x, e, p)
    ELSE EvalCall(x, e, p)

\* The dispatch of evaluate on the shape of x.
Dispatch(x, e, p) ==
    IF x.t = "sym"
    THEN IF x \in DOMAIN e THEN Return(e[x], e, <<>>) ELSE Raise("KeyError", e, <<>>)
    ELSE IF x.t # "list" THEN Return(x, e, <<>>)
    ELSE IF x.k = <<>> THEN Raise("IndexError", e, <<>>)
    ELSE IF x.k[1] = Sym(IF_) THEN EvalIf(x, e, p)
    ELSE IF x.k[1] = Sym(DEF_) THEN EvalDef(x, e, p)
    ELSE EvalCall(x, e, p)

evaluate(x, e, p) ==
    LET r == Dispatch(x, e, p) IN
    [r EXCEPT !.trace = Append(r.trace, Event("eval", p, r.ok, r.val))]

\* ------------------------------------------------------------------ text of a tree

RECURSIVE IntText(_)
IntText(i) ==
    IF i < 0 THEN <<"-">> \o IntText(-i)
    ELSE IF i < 10 THEN <<Digits[i + 1]>>
    ELSE IntText(i \div 10) \o <<Digits[(i % 10) + 1]>>

RECURSIVE Padded(_, _)
\* The decimal digits of i, zero-filled on the left to width w.
Padded(i, w) == IF w = 0 THEN <<>> ELSE Padded(i \div 10, w - 1) \o <<Digits[(i % 10) + 1]>>

\* The decimal text of the float n/d, for d a divisor of a power of ten:
\* "0.5", "1.0", "11.1".
FloatText(v) ==
    LET w == CHOOSE e \in 1..8 : Pow10(e) % v.d = 0 /\ \A f \in 1..(e - 1) : Pow10(f) % v.d # 0
        m == Abs(v.n) * (Pow10(w) \div v.d)
    IN (IF v.n < 0 THEN <<"-">> ELSE <<>>)
       \o IntText(m \div Pow10(w)) \o <<".">> \o Padded(m % Pow10(w), w)

RECURSIVE Serialize(_), Joined(_)

\* The texts of the nodes of kids, one space between two neighbours.
Joined(kids) ==
    IF kids = <<>> THEN <<>>
    ELSE IF Len(kids) = 1 THEN Serialize(kids[1])
    ELSE Serialize(kids[1]) \o <<" ">> \o Joined(Tail(kids))

\* The canonical parenthesized text of an Expression.
Serialize(x) ==
    CASE x.t = "int" -> IntText(x.n)
      [] x.t = "float" -> FloatText(x)
      [] x.t = "sym" -> x.s
      [] x.t = "list" -> <<"(">> \o Joined(x.k) \o <<")">>

\* ------------------------------------------------------------------ inputs

MaxLen == 5

MaxInt == 2

Alphabet == {"(", ")", " ", "1", ".", "x"}

Strings == UNION {[1..len -> Alphabet] : len \in 0..MaxLen}

I0 == IntV(0)

I1 == IntV(1)

I2 == IntV(2)

SX == Sym(<<"x">>)

SY == Sym(<<"y">>)

SIf == Sym(IF_)

SDef == Sym(DEF_)

Plus == Sym(<<"+">>)

Less == Sym(<<"<">>)

Div == Sym(<<"/">>)

Def(var, exp) == ListV(<<SDef, var, exp>>)

If(test, conseq, alt) == ListV(<<SIf, test, conseq, alt>>)

Call(f, a, b) == ListV(<<f, a, b>>)

Atoms == {I1, SX, SY, Plus, SDef, SIf}

Defs ==
    {Def(var, exp) : var \in {SX, SDef}, exp \in {I0, I1, SY}}
    \cup {Def(I1, I0), Def(SIf, I1), Def(SX, Plus), Def(SX, Call(Plus, SX, I1)),
          Def(SX, Call(Plus, Def(SX, I1), SY)), Def(ListV(<<SX>>), I1),
          ListV(<<SDef, SX>>)}

Tests == {I0, I1, SX, SY, Plus, Call(Less, I0, I1), Call(Less, I1, I0),
          Def(SX, I1), Call(Div, I0, I1)}

Ifs ==
    {If(test, I1, SY) : test \in Tests}
    \cup {If(test, SY, I0) : test \in Tests}
    \cup {If(test, Def(SX, I0), Def(SX, I2)) : test \in Tests}
    \cup {ListV(<<SIf, I1, I1>>)}

Calls ==
    {Call(Plus, a, b) : a, b \in {I1, SX, SY, Def(SX, I1)}}
    \cup {Call(Less, SX, I1), Call(Div, I1, I0), Call(Div, I1, I2), Call(I1, I1, I1),
          Call(SX, I0, I1), Call(SY, Def(SX, I1), I1), ListV(<<Plus, I1>>),
          ListV(<<>>), ListV(<<Def(SX, I1)>>),
          Call(If(SX, Plus, Less), I0, I1)}

Trees == Atoms \cup Defs \cup Ifs \cup Calls

\* The text without its last character: a list loses its closing parenthesis.
Chop(chars) == SubSeq(chars, 1, Len(chars) - 1)

Exit == <<"e", "x", "i", "t">>

Quit == <<"Q", "U", "I", "T">>

Malformed ==
    {<<>>, <<")">>, <<"(">>, <<"1", " ", "y">>}
    \cup {Chop(Serialize(x)) : x \in {Call(Plus, I1, I2), Def(SX, Call(Plus, SX, I1))}}
    \cup {Serialize(Def(SX, I1)) \o <<")">>}

Programs == {Serialize(x) : x \in Trees} \cup Malformed \cup {Exit, Quit}

Sources == Strings \cup Programs

\* Every number the evaluation of a line has produced is an int of at most
\* MaxInt in absolute value or a float that is an exact binary fraction.
InRange(v) ==
    /\ v.t = "int" => Abs(v.n) <= MaxInt
    /\ v.t = "float" => v.d \in {1, 2, 4} /\ Abs(v.n) <= MaxInt * v.d

Bounded(r) ==
    /\ \A q \in DOMAIN r.env : InRange(r.env[q])
    /\ \A i \in 1..Len(r.trace) : InRange(r.trace[i].val)

\* ------------------------------------------------------------------ history

RECURSIVE NodeAt(_, _)
NodeAt(x, path) == IF path = <<>> THEN x ELSE NodeAt(x.k[Head(path)], Tail(path))

IsDefForm(x) == x.t = "list" /\ Len(x.k) = 3 /\ x.k[1] = SDef

ValueAt(tr, path) ==
    tr[CHOOSE i \in 1..Len(tr) : tr[i].kind = "eval" /\ tr[i].path = path].val

RECURSIVE Completed(_, _, _, _)
\* last, updated with the (name, value) of every def form whose evaluation
\* has returned in tr[i..], in order: the value is what its valueExpr produced.
Completed(x, tr, i, last) ==
    IF i > Len(tr) THEN last
    ELSE IF tr[i].kind = "eval" /\ tr[i].ok /\ IsDefForm(NodeAt(x, tr[i].path))
    THEN Completed(x, tr, i + 1,
                   SetItem(last, NodeAt(x, tr[i].path).k[2],
                           ValueAt(tr, tr[i].path \o <<3>>)))
    ELSE Completed(x, tr, i + 1, last)

\* ------------------------------------------------------------------ repl

NoOut == [kind |-> "", err |-> "", val |-> NoneV]

Resultado(v) == [kind |-> "Resultado", err |-> "", val |-> v]

Erro(e) == [kind |-> "Erro", err |-> e, val |-> NoneV]

Empty == [q \in {} |-> NoneV]

Init ==
    /\ program = <<>>
    /\ pc = "input"
    /\ tree = NoTree
    /\ env0 = standard_env
    /\ env = standard_env
    /\ out = NoOut
    /\ trace = <<>>
    /\ lastDef = Empty

\* repl without its except clause: a failure ends the loop.
replStops(line) ==
    /\ pc = "input"
    /\ program' = line
    /\ env0' = env
    /\ IF lower(line) \in {<<"e", "x", "i", "t">>, <<"q", "u", "i", "t">>}
       THEN /\ pc' = "done"
            /\ tree' = NoTree
            /\ out' = NoOut
            /\ trace' = <<>>
            /\ UNCHANGED <<env, lastDef>>
       ELSE \E t \in {parse(line)} :
            IF ~t.ok
            THEN /\ pc' = "done"
                 /\ tree' = t
                 /\ out' = Erro(t.err)
                 /\ trace' = <<>>
                 /\ UNCHANGED <<env, lastDef>>
            ELSE \E r \in {evaluate(t.val, env, <<>>)} :
                 /\ Bounded(r)
                 /\ pc' = IF r.ok THEN "input" ELSE "done"
                 /\ tree' = t
                 /\ env' = r.env
                 /\ trace' = r.trace
                 /\ out' = IF r.ok THEN Resultado(r.val) ELSE Erro(r.err)
                 /\ lastDef' = Completed(t.val, r.trace, 1, lastDef)

\* One iteration of the loop of repl() on the input line `line`.
repl(line) ==
    /\ pc = "input"
    /\ program' = line
    /\ env0' = env
    /\ IF lower(line) \in {<<"e", "x", "i", "t">>, <<"q", "u", "i", "t">>}
       THEN /\ pc' = "done"
            /\ tree' = NoTree
            /\ out' = NoOut
            /\ trace' = <<>>
            /\ UNCHANGED <<env, lastDef>>
       ELSE \E t \in {parse(line)} :
            IF ~t.ok
            THEN /\ pc' = "input"
                 /\ tree' = t
                 /\ out' = Erro(t.err)
                 /\ trace' = <<>>
                 /\ UNCHANGED <<env, lastDef>>
            ELSE \E r \in {evaluate(t.val, env, <<>>)} :
                 /\ Bounded(r)
                 /\ pc' = "input"
                 /\ tree' = t
                 /\ env' = r.env
                 /\ trace' = r.trace
                 /\ out' = IF r.ok THEN Resultado(r.val) ELSE Erro(r.err)
                 /\ lastDef' = Completed(t.val, r.trace, 1, lastDef)

Next == \E line \in Programs : repl(line)

Spec == Init /\ [][Next]_vars

\* ------------------------------------------------------------------ parse alone

InitParse ==
    /\ program \in Sources
    /\ pc = "source"
    /\ tree = NoTree
    /\ env0 = standard_env
    /\ env = standard_env
    /\ out = NoOut
    /\ trace = <<>>
    /\ lastDef = Empty

Parse ==
    /\ pc = "source"
    /\ pc' = "parsed"
    /\ tree' = parse(program)
    /\ UNCHANGED <<program, env0, env, out, trace, lastDef>>

SpecParse == InitParse /\ [][Parse]_vars

\* ------------------------------------------------------------------ claims on parse

\* The number of lists open after the first i tokens.
Depth(tokens, i) ==
    Cardinality({j \in 1..i : tokens[j] = LP}) - Cardinality({j \in 1..i : tokens[j] = RP})

\* The tokens run out while a token is still required: there is none at all,
\* or the list the first token opens is not closed by any later token.
RunsOut(tokens) ==
    \/ tokens = <<>>
    \/ tokens[1] = LP /\ \A i \in 1..Len(tokens) : Depth(tokens, i) > 0

\* C1: whenever the tokens run out while a token is still required (empty
\* input, or a list opened and not closed, at any depth), parse fails with
\* SyntaxError 'Unexpected EOF' and with no other failure.
C1_UnexpectedEOF ==
    (pc = "parsed" /\ RunsOut(tokenize(program))) => (~tree.ok /\ tree.err = EOF)

\* C6: a ')' read where an expression is expected fails with SyntaxError
\* 'Unexpected )' and yields no tree; and every ')' a successful parse has
\* consumed closes a list that a '(' before it opened.
C6_UnexpectedCloseParen ==
    pc = "parsed" =>
        LET tokens == tokenize(program)
            used == Len(tokens) - Len(tree.rest)
        IN /\ (tokens # <<>> /\ tokens[1] = RP) =>
                  (~tree.ok /\ tree.err = CloseParen /\ tree.val = NoneV)
           /\ tree.ok =>
                  /\ tree.rest = SubSeq(tokens, used + 1, Len(tokens))
                  /\ \A j \in 1..used : tokens[j] = RP => Depth(tokens, j - 1) > 0

C6_Witness ==
    /\ pc = "parsed"
    /\ Len(tokenize(program)) > 1
    /\ tokenize(program)[1] = RP
    /\ tree.err = CloseParen

\* C7: for every source that parse accepts, the canonical text of the tree
\* parses to the same tree.
C7_RoundTrip ==
    (pc = "parsed" /\ tree.ok) => parse(Serialize(tree.val)) = Read(tree.val, <<>>)

C7_Witness ==
    /\ pc = "parsed"
    /\ tree.ok
    /\ tree.val.t = "list"
    /\ Len(tree.val.k) >= 1
    /\ tree.val.k[1].t = "float"
    /\ Serialize(tree.val) # program

\* ------------------------------------------------------------------ claims on evaluate and repl

IsPrefix(p, q) == Len(p) <= Len(q) /\ SubSeq(q, 1, Len(p)) = p

\* The evaluate() calls of the last line, as indices of trace.
Evals == {i \in 1..Len(trace) : trace[i].kind = "eval"}

EvalsAt(p) == {i \in Evals : trace[i].path = p}

CallsAt(p) == {i \in 1..Len(trace) : trace[i].kind = "call" /\ trace[i].path = p}

\* Everything that happened while evaluating the node at p or a node inside it.
Under(p) == {i \in 1..Len(trace) : IsPrefix(p, trace[i].path)}

Node(i) == NodeAt(tree.val, trace[i].path)

HeadIs(x, name) == x.t = "list" /\ x.k # <<>> /\ x.k[1] = Sym(name)

IsIfForm(x) == HeadIs(x, IF_) /\ Len(x.k) = 4

IsCallForm(x) == x.t = "list" /\ x.k # <<>> /\ ~HeadIs(x, IF_) /\ ~HeadIs(x, DEF_)

TheEval(p) == CHOOSE i \in EvalsAt(p) : TRUE

\* env0 with the bindings of the def forms completed in trace[1..i], in order.
EnvAfter(i) == Completed(tree.val, SubSeq(trace, 1, i), 1, env0)

Binding(e, key) == IF DictKey(key) \in DOMAIN e THEN <<e[DictKey(key)]>> ELSE <<>>

TextOf(x) == Serialize(x)

\* C2: of conseq and alt exactly one is evaluated, once, and nothing of the
\* other is: the result of the form is the result of that branch, and the
\* Environment changes by the def forms that completed and by nothing else.
C2_IfShortCircuit ==
    tree.ok =>
        /\ env = EnvAfter(Len(trace))
        /\ \A i \in Evals :
              IsIfForm(Node(i)) =>
                  LET p == trace[i].path
                      test == TheEval(p \o <<2>>)
                  IN /\ Cardinality(EvalsAt(p \o <<2>>)) = 1
                     /\ ~trace[test].ok => Under(p \o <<3>>) \cup Under(p \o <<4>>) = {}
                     /\ trace[test].ok =>
                           \E b \in {3, 4} :
                               /\ Cardinality(EvalsAt(p \o <<b>>)) = 1
                               /\ Under(p \o <<7 - b>>) = {}
                               /\ test < TheEval(p \o <<b>>)
                               /\ trace[i].ok = trace[TheEval(p \o <<b>>)].ok
                               /\ trace[i].val = trace[TheEval(p \o <<b>>)].val

\* (if (< 0 1) 1 y) with y unbound has returned 1.
C2_Witness ==
    /\ program = TextOf(If(Call(Less, I0, I1), I1, SY))
    /\ SY \notin DOMAIN env
    /\ out = Resultado(I1)

\* C3: every name a def form has bound is still bound, to the value the last
\* completed def of that name produced; evaluating the symbol returns that
\* value; and no key ever leaves the Environment.
C3_DefPersists ==
    /\ \A q \in DOMAIN lastDef : q \in DOMAIN env /\ env[q] = lastDef[q]
    /\ DOMAIN standard_env \subseteq DOMAIN env
    /\ DOMAIN env0 \subseteq DOMAIN env
    /\ (tree.ok /\ tree.val.t = "sym" /\ tree.val \in DOMAIN lastDef) =>
           out = Resultado(lastDef[tree.val])

\* x, defined by an earlier line, evaluates to its value.
C3_Witness ==
    /\ program = <<"x">>
    /\ SX \in DOMAIN lastDef
    /\ lastDef[SX] = I2
    /\ out = Resultado(I2)

\* A def form whose valueExpr has failed, as indices of trace.
FailedDefs == {i \in Evals : IsDefForm(Node(i)) /\ ~trace[TheEval(trace[i].path \o <<3>>)].ok}

\* The first thing that happened inside the node evaluated at trace[i].
Start(i) == CHOOSE j \in Under(trace[i].path) : \A m \in Under(trace[i].path) : j <= m

\* C4 as stated: after a def whose valueExpr failed, name is bound exactly as
\* it was before the def started.
C4_FailedDefKeepsBinding ==
    tree.ok =>
        \A i \in FailedDefs :
            Binding(env, Node(i).k[2]) = Binding(EnvAfter(Start(i) - 1), Node(i).k[2])

\* The def forms of the name of the def at trace[i] that completed inside it.
NestedDefs(i) ==
    {j \in Evals : /\ Start(i) <= j
                   /\ j < i
                   /\ trace[j].ok
                   /\ IsDefForm(Node(j))
                   /\ DictKey(Node(j).k[2]) = DictKey(Node(i).k[2])}

\* C4 amended: a def whose valueExpr failed binds nothing itself: name is left
\* as the last def of the same name that completed inside valueExpr bound it,
\* and, when there is none, exactly as it was before the def started.
C4_FailedDefBindsNothing ==
    tree.ok =>
        \A i \in FailedDefs :
            /\ ~trace[i].ok
            /\ i = Len(trace)
            /\ IF NestedDefs(i) = {}
               THEN Binding(env, Node(i).k[2]) = Binding(EnvAfter(Start(i) - 1), Node(i).k[2])
               ELSE LET j == CHOOSE m \in NestedDefs(i) : \A o \in NestedDefs(i) : o <= m
                    IN Binding(env, Node(i).k[2]) = <<trace[TheEval(trace[j].path \o <<3>>)].val>>

\* (def x y) has failed on the unbound y, with x bound before.
C4_Witness ==
    /\ program = TextOf(Def(SX, SY))
    /\ SX \in DOMAIN env0
    /\ out = Erro("KeyError")
    /\ env[SX] = env0[SX]

\* C5 as stated: a line that fails leaves the Environment as it was, and the
\* loop goes on.
C5_FailedLineKeepsEnv ==
    out.kind = "Erro" => (env = env0 /\ pc = "input")

\* C5 amended: a line whose parse fails leaves the Environment as it was; a
\* line whose evaluation fails leaves it changed by the def forms that
\* completed before the failure and by nothing else, with no key removed;
\* either way the failure is reported and the loop goes on.
C5_FailedLineKeepsCompletedDefs ==
    out.kind = "Erro" =>
        /\ pc = "input"
        /\ ~tree.ok => env = env0
        /\ tree.ok =>
              /\ env = EnvAfter(Len(trace))
              /\ DOMAIN env0 \subseteq DOMAIN env
              /\ ~trace[Len(trace)].ok
              /\ trace[Len(trace)].path = <<>>

\* (+ (def x 1) y) has failed on y and x is bound to 1.
C5_Witness ==
    /\ program = TextOf(Call(Plus, Def(SX, I1), SY))
    /\ out = Erro("KeyError")
    /\ Binding(env0, SX) # <<I1>>
    /\ Binding(env, SX) = <<I1>>
    /\ pc = "input"

\* C8: a list whose first element is the symbol if or def is evaluated as the
\* special form whatever the Environment holds: its first element is never
\* evaluated and nothing is called; a def form of three elements that returns
\* has bound its second element, symbol or not, and returned None.
C8_SpecialFormsByText ==
    tree.ok =>
        \A i \in Evals :
            (HeadIs(Node(i), IF_) \/ HeadIs(Node(i), DEF_)) =>
                LET p == trace[i].path IN
                /\ Under(p \o <<1>>) = {}
                /\ CallsAt(p) = {}
                /\ (Len(Node(i).k) # (IF HeadIs(Node(i), IF_) THEN 4 ELSE 3)) =>
                       (~trace[i].ok /\ Under(p) = {i})
                /\ (IsDefForm(Node(i)) /\ trace[i].ok) =>
                       /\ trace[i].val = NoneV
                       /\ Binding(EnvAfter(i), Node(i).k[2])
                              = <<trace[TheEval(p \o <<3>>)].val>>
                /\ IsIfForm(Node(i)) => EvalsAt(p \o <<2>>) # {}

\* With def bound to a number, (def x 1) has bound x.
C8_Witness ==
    /\ SDef \in DOMAIN env0
    /\ program = TextOf(Def(SX, I1))
    /\ out = Resultado(NoneV)
    /\ Binding(env, SX) = <<I1>>

\* C9: in an application the first element is evaluated first, then the
\* arguments left to right, each once and only after everything before it
\* has returned; the call happens once, after all of them; a symbol evaluates
\* to what the def forms completed before it left.
C9_ApplicationOrder ==
    tree.ok =>
        /\ \A i \in Evals :
              IsCallForm(Node(i)) =>
                  LET p == trace[i].path
                      n == Len(Node(i).k)
                  IN /\ \A j \in 1..n : Cardinality(EvalsAt(p \o <<j>>)) <= 1
                     /\ \A j \in 2..n :
                           Under(p \o <<j>>) # {} =>
                               /\ EvalsAt(p \o <<j - 1>>) # {}
                               /\ trace[TheEval(p \o <<j - 1>>)].ok
                               /\ \A m \in Under(p \o <<j>>) : TheEval(p \o <<j - 1>>) < m
                     /\ Cardinality(CallsAt(p)) <= 1
                     /\ \A c \in CallsAt(p) :
                           \A j \in 1..n :
                               /\ EvalsAt(p \o <<j>>) # {}
                               /\ trace[TheEval(p \o <<j>>)].ok
                               /\ TheEval(p \o <<j>>) < c
                     /\ trace[i].ok => CallsAt(p) # {}
                     /\ EvalsAt(p \o <<1>>) # {}
        /\ \A i \in Evals :
              (Node(i).t = "sym" /\ trace[i].ok) =>
                  Binding(EnvAfter(i - 1), Node(i)) = <<trace[i].val>>
        /\ env = EnvAfter(Len(trace))

\* In (+ (def x 1) x), with x unbound before, the second argument has seen
\* the binding the first one made.
C9_Witness ==
    /\ program = TextOf(Call(Plus, Def(SX, I1), SX))
    /\ SX \notin DOMAIN env0
    /\ Len(trace) = 6
    /\ trace[4].path = <<3>>
    /\ trace[4].val = I1
    /\ out = Erro("TypeError")

\* The if forms whose test has returned, as indices of trace.
TestedIfs == {i \in Evals : IsIfForm(Node(i)) /\ trace[TheEval(trace[i].path \o <<2>>)].ok}

TestValue(i) == trace[TheEval(trace[i].path \o <<2>>)].val

Taken(i, b) == EvalsAt(trace[i].path \o <<b>>) # {}

\* C10 as stated: alt is taken only when test is the boolean false; every
\* other result, 0 included, takes conseq.
C10_OnlyFalseTakesAlt ==
    tree.ok =>
        \A i \in TestedIfs :
            IF TestValue(i) = BoolV(FALSE) THEN Taken(i, 4) ELSE Taken(i, 3)

\* What Python's truth test makes false.
Falsy(v) == v \in {BoolV(FALSE), NoneV, IntV(0), FloatV(0, 1)}

\* C10 amended: alt is taken exactly when test is false in Python's sense:
\* the boolean false, a numeric zero (0 or 0.0) or None (the result of a def
\* form); every other result (a non-zero number, true, a function) takes
\* conseq.
C10_FalsyTakesAlt ==
    tree.ok =>
        \A i \in TestedIfs :
            IF Falsy(TestValue(i))
            THEN Taken(i, 4) /\ ~Taken(i, 3)
            ELSE Taken(i, 3) /\ ~Taken(i, 4)

\* (if 0 y 0) has taken alt and returned 0.
C10_Witness ==
    /\ program = TextOf(If(I0, SY, I0))
    /\ out = Resultado(I0)

====
